---- MODULE Spec2Model ----
(***************************************************************************)
(* Model of registro_studenti_ai.py: a console student register kept in a  *)
(* JSON file.  Every menu operation loads the whole file, changes one      *)
(* thing and writes the whole file back.                                   *)
(*                                                                         *)
(* Conventions                                                             *)
(*  - a Python str is a sequence of one-character strings; the character   *)
(*    U+00B2 (superscript two) is written "sup2";                          *)
(*  - a JSON value inside a "voti" list is a record [t, n, d]: t is the    *)
(*    Python type after json.load ("int", "float", "bool", "str", "null",  *)
(*    "list") and n/d the number it holds (d = 1 for int and bool);        *)
(*  - a student is a TLA+ record whose DOMAIN is the set of keys the JSON  *)
(*    object has, so a hand-edited object may lack keys;                   *)
(*  - a fraction [n, d] stands for the Python float n/d;                   *)
(*  - a JSON array in the file holds objects only, whose matricola, nome   *)
(*    and cognome, when present, are strings and whose voti, when present, *)
(*    is an array; a document that is not an array is known by its kind.   *)
(***************************************************************************)
EXTENDS Integers, Sequences, FiniteSets, TLC

VARIABLES file, pc, last, shown, arg, res

vars == <<file, pc, last, shown, arg, res>>

----------------------------------------------------------------------------
(* Bounds of the model *)

MaxRoster == 2
MaxGrades == 3
MaxPieces == 3
MaxAvgLen == 3

(* Program constants: the grade range, lines 144 and 210 *)
MinGrade == 18
MaxGrade == 30

----------------------------------------------------------------------------
(* Python str primitives *)

\* the blank characters of the model's alphabet that str.strip() removes
Whitespace == {" ", "\t"}
DecimalChars == {"0", "1", "2", "3", "4", "5", "6", "7", "8", "9"}
\* str.isdigit() also accepts digits that int() refuses, such as U+00B2
DigitChars == DecimalChars \cup {"sup2"}

DigitVal(c) ==
  CASE c = "0" -> 0 [] c = "1" -> 1 [] c = "2" -> 2 [] c = "3" -> 3
    [] c = "4" -> 4 [] c = "5" -> 5 [] c = "6" -> 6 [] c = "7" -> 7
    [] c = "8" -> 8 [] c = "9" -> 9

RECURSIVE lstrip(_)
lstrip(s) ==
  IF s = <<>> THEN s
  ELSE IF Head(s) \in Whitespace THEN lstrip(Tail(s)) ELSE s

RECURSIVE rstrip(_)
rstrip(s) ==
  IF s = <<>> THEN s
  ELSE IF s[Len(s)] \in Whitespace THEN rstrip(SubSeq(s, 1, Len(s) - 1)) ELSE s

\* str.strip()
strip(s) == rstrip(lstrip(s))

\* str.split(","): the pieces between the commas, "" included
split(s) ==
  LET commas == {i \in 1..Len(s) : s[i] = ","}
      n == Cardinality(commas)
      \* the position of the k-th comma
      at(k) == CHOOSE i \in commas : Cardinality({j \in commas : j < i}) = k - 1
      first(k) == IF k = 1 THEN 1 ELSE at(k - 1) + 1
      stop(k) == IF k = n + 1 THEN Len(s) ELSE at(k) - 1
  IN [k \in 1..(n + 1) |-> SubSeq(s, first(k), stop(k))]

\* str.isdigit()
isdigit(s) == Len(s) > 0 /\ \A i \in 1..Len(s) : s[i] \in DigitChars

\* int() refuses a string of more than this many digits
\* (sys.get_int_max_str_digits(), CPython's default)
MaxStrDigits == 4300

\* Python integers have no width.  A value of more than SigDigits significant
\* digits is represented by IntCap: the program only compares the values it
\* parses with 18 and 30.
SigDigits == 9
IntCap == 1000000000

RECURSIVE DigitsVal(_)
DigitsVal(s) ==
  IF s = <<>> THEN 0
  ELSE 10 * DigitsVal(SubSeq(s, 1, Len(s) - 1)) + DigitVal(s[Len(s)])

\* the value of a string of decimal digits
DecVal(s) ==
  LET nz == {i \in 1..Len(s) : s[i] # "0"}
  IN IF nz = {} THEN 0
     ELSE LET k == CHOOSE i \in nz : \A j \in nz : i <= j
              sig == SubSeq(s, k, Len(s))
          IN IF Len(sig) > SigDigits THEN IntCap ELSE DigitsVal(sig)

\* int(str): [ok, v]; ok = FALSE stands for ValueError
int(s) ==
  LET t    == strip(s)
      sign == Len(t) > 0 /\ t[1] \in {"+", "-"}
      body == IF sign THEN Tail(t) ELSE t
      wellFormed ==
        /\ Len(body) > 0
        /\ \A i \in 1..Len(body) : body[i] \in DecimalChars \cup {"_"}
        /\ body[1] # "_" /\ body[Len(body)] # "_"
        /\ \A i \in 1..(Len(body) - 1) : ~(body[i] = "_" /\ body[i + 1] = "_")
      digits == SelectSeq(body, LAMBDA c : c \in DecimalChars)
      mag  == DecVal(digits)
  IN IF ~wellFormed \/ Len(digits) > MaxStrDigits THEN [ok |-> FALSE, v |-> 0]
     ELSE [ok |-> TRUE, v |-> IF sign /\ t[1] = "-" THEN 0 - mag ELSE mag]

\* a JSON integer as json.load gives it
JInt(n) == [t |-> "int", n |-> n, d |-> 1]

----------------------------------------------------------------------------
(* The store file *)

NoDoc     == [t |-> "none", items |-> <<>>]
EmptyList == [t |-> "array", items |-> <<>>]

\* A JSON document that is not an array is known by its kind only: "object"
\* and "string" are non-empty, "number" is not zero; "empty_object",
\* "empty_string", "zero" are the others.

\* bool(doc), as in "if not studenti"
Truthy(doc) ==
  \/ doc.t = "array" /\ doc.items # <<>>
  \/ doc.t \in {"object", "string", "number", "true"}

\* the exception of "for s in doc: s.get(...)": a number, a boolean and None
\* cannot be iterated, the elements of a non-empty object or string are str
IterExc(doc) ==
  IF doc.t \in {"number", "zero", "true", "false", "null"} THEN "TypeError"
  ELSE IF doc.t \in {"object", "string"} THEN "AttributeError"
  ELSE "none"

\* the file after json.dump(studenti, file, ...) on a freshly truncated file
json_dump(studenti) == [kind |-> "json", doc |-> [t |-> "array", items |-> studenti]]

\* a load that lets FileNotFoundError through (fault-injection variant)
leggi_no_except(f) ==
  CASE f.kind = "json"    -> [exc |-> "none", val |-> f.doc]
    [] f.kind = "missing" -> [exc |-> "FileNotFoundError", val |-> NoDoc]
    [] f.kind = "badjson" -> [exc |-> "none", val |-> EmptyList]
    [] f.kind = "badutf8" -> [exc |-> "UnicodeDecodeError", val |-> NoDoc]
    [] f.kind = "unreadable" -> [exc |-> "PermissionError", val |-> NoDoc]

\* leggi_studenti_da_file: [exc, val]; exc # "none" is an exception that the
\* except clause (JSONDecodeError, FileNotFoundError) does not catch
leggi_studenti_da_file(f) ==
  CASE f.kind = "json"    -> [exc |-> "none", val |-> f.doc]
    [] f.kind = "missing" -> [exc |-> "none", val |-> EmptyList]
    [] f.kind = "badjson" -> [exc |-> "none", val |-> EmptyList]
    [] f.kind = "badutf8" -> [exc |-> "UnicodeDecodeError", val |-> NoDoc]
    [] f.kind = "unreadable" -> [exc |-> "PermissionError", val |-> NoDoc]

----------------------------------------------------------------------------
(* calcola_media *)

\* isinstance(v, (int, float)): bool is a subclass of int
IsNumber(v) == v.t \in {"int", "float", "bool"}

RECURSIVE sum(_)
sum(vs) ==
  IF vs = <<>> THEN [n |-> 0, d |-> 1]
  ELSE LET r == sum(Tail(vs))
           h == Head(vs)
       IN [n |-> h.n * r.d + r.n * h.d, d |-> h.d * r.d]

calcola_media(voti) ==
  LET voti_validi == SelectSeq(voti, IsNumber)
      s == sum(voti_validi)
  IN IF voti_validi # <<>>
     THEN [n |-> s.n, d |-> s.d * Len(voti_validi)]
     ELSE [n |-> 0, d |-> 1]

----------------------------------------------------------------------------
(* stampa_studenti *)

ND == <<"N", "/", "D">>

\* dict.get(key, default)
Get(studente, key, default) ==
  IF key \in DOMAIN studente THEN studente[key] ELSE default

RigaStudente(studente) ==
  [matricola |-> Get(studente, "matricola", ND),
   nome      |-> Get(studente, "nome", ND),
   cognome   |-> Get(studente, "cognome", ND),
   media     |-> calcola_media(Get(studente, "voti", <<>>))]

stampa_studenti(studenti) ==
  [i \in 1..Len(studenti) |-> RigaStudente(studenti[i])]

----------------------------------------------------------------------------
(* Validation *)

\* a range check that forgets the upper limit (fault-injection variant)
InRangeNoUpper(v) == MinGrade <= v

\* a range check that forgets the lower limit (fault-injection variant)
InRangeNoLower(v) == v <= MaxGrade

\* 18 <= v <= 30
InRange(v) == MinGrade <= v /\ v <= MaxGrade

\* the condition of the list comprehension, for one piece: [raises, keep]
PieceCheck(v) ==
  LET t == strip(v)
  IN IF ~isdigit(t) THEN [raises |-> FALSE, keep |-> FALSE]
     ELSE IF ~int(t).ok THEN [raises |-> TRUE, keep |-> FALSE]
     ELSE [raises |-> FALSE, keep |-> InRange(int(t).v)]

\* voti = [int(v.strip()) for v in voti_input.split(",") if ...], with the
\* except ValueError that replaces the whole list by []
ParseVoti(voti_input) ==
  LET pieces == split(voti_input)
      kept   == SelectSeq(pieces, LAMBDA v : PieceCheck(v).keep)
  IN IF \E i \in 1..Len(pieces) : PieceCheck(pieces[i]).raises
     THEN <<>>
     ELSE [i \in 1..Len(kept) |-> JInt(int(strip(kept[i])).v)]

\* while True: x = input(...).strip(); if x: break -- reading the lines of
\* script from position i: [eof, val, next]
RECURSIVE ReadNonEmpty(_, _)
ReadNonEmpty(script, i) ==
  IF i > Len(script) THEN [eof |-> TRUE, val |-> <<>>, next |-> i]
  ELSE IF strip(script[i]) # <<>>
       THEN [eof |-> FALSE, val |-> strip(script[i]), next |-> i + 1]
       ELSE ReadNonEmpty(script, i + 1)

----------------------------------------------------------------------------
(* What the last menu operation did: the lines it read and how it ended.   *)
(* store is the kind of the file when the operation began; exc # "none" is *)
(* an exception that left the menu loop.                                   *)

Blank ==
  [op |-> "none", outcome |-> "none", exc |-> "none", store |-> "none",
   id |-> <<>>, nome |-> <<>>, cognome |-> <<>>, raw |-> <<>>,
   confirm |-> <<>>, voti |-> <<>>]

\* the result of a handler that wrote nothing
Unwritten(f, l) == [file |-> f, last |-> l, shown |-> <<>>]

----------------------------------------------------------------------------
(* esegui_processo *)

esegui_processo(f) ==
  LET ld == leggi_studenti_da_file(f)
      l  == [Blank EXCEPT !.op = "list", !.store = f.kind]
  IN IF ld.exc # "none"
     THEN Unwritten(f, [l EXCEPT !.outcome = "raised", !.exc = ld.exc])
     ELSE IF IterExc(ld.val) # "none"
     THEN Unwritten(f, [l EXCEPT !.outcome = "raised", !.exc = IterExc(ld.val)])
     ELSE [file |-> f, last |-> [l EXCEPT !.outcome = "ok"],
           shown |-> stampa_studenti(ld.val.items)]

----------------------------------------------------------------------------
(* aggiungi_studente *)

\* a new student put in front of the list (fault-injection variant)
InsertStudente(studenti, nuovo_studente) == <<nuovo_studente>> \o studenti

\* studenti.append(nuovo_studente)
AppendStudente(studenti, nuovo_studente) == Append(studenti, nuovo_studente)

aggiungi_studente(f, script) ==
  LET matricola == ReadNonEmpty(script, 1)
      nome      == ReadNonEmpty(script, matricola.next)
      cognome   == ReadNonEmpty(script, nome.next)
      eof       == cognome.eof \/ cognome.next > Len(script)
      voti_input == script[cognome.next]
      voti      == ParseVoti(voti_input)
      l  == [Blank EXCEPT !.op = "add_student", !.store = f.kind,
                          !.id = matricola.val, !.nome = nome.val,
                          !.cognome = cognome.val]
      nuovo_studente ==
        [matricola |-> matricola.val, nome |-> nome.val,
         cognome |-> cognome.val, voti |-> voti]
      ld == leggi_studenti_da_file(f)
  IN IF eof
     THEN Unwritten(f, [l EXCEPT !.outcome = "raised", !.exc = "EOFError"])
     ELSE IF voti = <<>>
     THEN Unwritten(f, [l EXCEPT !.outcome = "NoValidGrades", !.raw = voti_input])
     ELSE IF ld.exc # "none"
     THEN Unwritten(f, [l EXCEPT !.outcome = "raised", !.exc = ld.exc,
                                 !.raw = voti_input, !.voti = voti])
     \* only a list has append
     ELSE IF ld.val.t # "array"
     THEN Unwritten(f, [l EXCEPT !.outcome = "raised", !.exc = "AttributeError",
                                 !.raw = voti_input, !.voti = voti])
     ELSE [file  |-> json_dump(AppendStudente(ld.val.items, nuovo_studente)),
           last  |-> [l EXCEPT !.outcome = "ok", !.raw = voti_input, !.voti = voti],
           shown |-> <<>>]

----------------------------------------------------------------------------
(* aggiungi_voto *)

Matches(studente, matricola_input) ==
  "matricola" \in DOMAIN studente /\ studente.matricola = matricola_input

\* next((s for s in studenti if s.get("matricola") == matricola_input), None):
\* the position of the student found, 0 for None
studente_trovato(studenti, matricola_input) ==
  LET hits == {i \in 1..Len(studenti) : Matches(studenti[i], matricola_input)}
  IN IF hits = {} THEN 0 ELSE CHOOSE i \in hits : \A j \in hits : i <= j

\* the grade put in front of the list (fault-injection variant)
setdefault_prepend(studente, voto) ==
  IF "voti" \in DOMAIN studente
  THEN [studente EXCEPT !.voti = <<JInt(voto)>> \o @]
  ELSE studente @@ [voti |-> <<JInt(voto)>>]

\* studente_trovato.setdefault("voti", []).append(voto)
setdefault_append(studente, voto) ==
  IF "voti" \in DOMAIN studente
  THEN [studente EXCEPT !.voti = Append(@, JInt(voto))]
  ELSE studente @@ [voti |-> <<JInt(voto)>>]

aggiungi_voto(f, script) ==
  LET ld == leggi_studenti_da_file(f)
      studenti == ld.val.items
      matricola_input == strip(script[1])
      i  == studente_trovato(studenti, matricola_input)
      voto_input == strip(script[2])
      voto == int(voto_input)
      l  == [Blank EXCEPT !.op = "add_grade", !.store = f.kind]
      li == [l EXCEPT !.id = matricola_input]
      lv == [li EXCEPT !.raw = script[2]]
      nuovi == [studenti EXCEPT ![i] = setdefault_append(@, voto.v)]
  IN IF ld.exc # "none"
     THEN Unwritten(f, [l EXCEPT !.outcome = "raised", !.exc = ld.exc])
     ELSE IF Len(script) < 1
     THEN Unwritten(f, [l EXCEPT !.outcome = "raised", !.exc = "EOFError"])
     ELSE IF IterExc(ld.val) # "none"
     THEN Unwritten(f, [li EXCEPT !.outcome = "raised", !.exc = IterExc(ld.val)])
     ELSE IF i = 0
     THEN Unwritten(f, [li EXCEPT !.outcome = "StudentNotFound"])
     ELSE IF Len(script) < 2
     THEN Unwritten(f, [li EXCEPT !.outcome = "raised", !.exc = "EOFError"])
     ELSE IF ~voto.ok \/ ~InRange(voto.v)
     THEN Unwritten(f, [lv EXCEPT !.outcome = "InvalidGrade"])
     ELSE IF {"nome", "cognome"} \subseteq DOMAIN studenti[i]
     THEN [file  |-> json_dump(nuovi),
           last  |-> [lv EXCEPT !.outcome = "ok", !.voti = <<JInt(voto.v)>>],
           shown |-> <<>>]
     \* the confirmation message reads studente_trovato['nome'] and
     \* ['cognome'] after the file has been written
     ELSE [file  |-> json_dump(nuovi),
           last  |-> [lv EXCEPT !.outcome = "raised", !.exc = "KeyError",
                                !.voti = <<JInt(voto.v)>>],
           shown |-> <<>>]

----------------------------------------------------------------------------
(* cancella_studente *)

UpperLetters ==
  <<"A", "B", "C", "D", "E", "F", "G", "H", "I", "J", "K", "L", "M",
    "N", "O", "P", "Q", "R", "S", "T", "U", "V", "W", "X", "Y", "Z">>
LowerLetters ==
  <<"a", "b", "c", "d", "e", "f", "g", "h", "i", "j", "k", "l", "m",
    "n", "o", "p", "q", "r", "s", "t", "u", "v", "w", "x", "y", "z">>

\* str.lower() on one character: an upper-case letter becomes its lower-case
\* letter, every other character of the model's alphabet (lower-case letters,
\* digits, signs, blank, U+00B2) is left as it is
LowerChar(c) ==
  IF \E i \in 1..Len(UpperLetters) : UpperLetters[i] = c
  THEN LowerLetters[CHOOSE i \in 1..Len(UpperLetters) : UpperLetters[i] = c]
  ELSE c

\* str.lower()
lower(s) == [i \in 1..Len(s) |-> LowerChar(s[i])]

\* the last student with the id instead of the first (fault-injection variant)
LastIndex(studenti, matricola_input) ==
  LET hits == {i \in 1..Len(studenti) : Matches(studenti[i], matricola_input)}
  IN IF hits = {} THEN 0 ELSE CHOOSE i \in hits : \A j \in hits : j <= i

\* for index, studente in enumerate(studenti): ... break -- 0 for None
studente_index(studenti, matricola_input) ==
  LET hits == {i \in 1..Len(studenti) : Matches(studenti[i], matricola_input)}
  IN IF hits = {} THEN 0 ELSE CHOOSE i \in hits : \A j \in hits : i <= j

\* studenti.pop(index), as the list that is left
pop(studenti, index) ==
  SubSeq(studenti, 1, index - 1) \o SubSeq(studenti, index + 1, Len(studenti))

cancella_studente(f, script) ==
  LET ld == leggi_studenti_da_file(f)
      studenti == ld.val.items
      matricola_input == strip(script[1])
      index == studente_index(studenti, matricola_input)
      conferma == lower(strip(script[2]))
      l  == [Blank EXCEPT !.op = "delete", !.store = f.kind]
      li == [l EXCEPT !.id = matricola_input]
      lc == [li EXCEPT !.confirm = script[2]]
  IN IF ld.exc # "none"
     THEN Unwritten(f, [l EXCEPT !.outcome = "raised", !.exc = ld.exc])
     ELSE IF ~Truthy(ld.val)
     THEN Unwritten(f, [l EXCEPT !.outcome = "EmptyRoster"])
     ELSE IF Len(script) < 1
     THEN Unwritten(f, [l EXCEPT !.outcome = "raised", !.exc = "EOFError"])
     ELSE IF IterExc(ld.val) # "none"
     THEN Unwritten(f, [li EXCEPT !.outcome = "raised", !.exc = IterExc(ld.val)])
     ELSE IF index = 0
     THEN Unwritten(f, [li EXCEPT !.outcome = "StudentNotFound"])
     ELSE IF Len(script) < 2
     THEN Unwritten(f, [li EXCEPT !.outcome = "raised", !.exc = "EOFError"])
     ELSE IF conferma # <<"s">>
     THEN Unwritten(f, [lc EXCEPT !.outcome = "Cancelled"])
     ELSE [file  |-> json_dump(pop(studenti, index)),
           last  |-> [lc EXCEPT !.outcome = "ok"],
           shown |-> <<>>]

----------------------------------------------------------------------------
(* Inputs *)

S1  == <<"S", "1">>
S2  == <<"S", "2">>
S3  == <<"S", "3">>
Ana == <<"A", "n", "a">>
Li  == <<"L", "i">>

\* what the operator types at the menu prompt
Choices == {<<"1">>, <<" ", "2">>, <<"3", " ">>, <<"4">>, <<"0">>, <<"9">>, <<>>}

\* one digit more than int() accepts
LongDigits == [i \in 1..(MaxStrDigits + 1) |-> "1"]

\* the lines typed to aggiungi_studente: the three prompt loops, then the grades
IdLines      == {<<S1>>, << <<" ">>, <<" ">> \o S2 \o <<" ">> >>}
NomeLines    == {<< <<" ">> \o Ana >>, << <<>>, Ana >>}
CognomeLines == {<<Li>>}
VotiLines ==
  {<<"2", "4", ",", "2", "6">>,
   <<" ", "1", "8", " ", ",", "3", "0">>,
   <<"2", "4", ",", " ", "b", "a", "d", ",", " ", "1", "7", ",", " ", "3", "1",
     ",", " ", "2", "6">>,
   <<>>,
   <<"1", "7", ",", "3", "1">>,
   <<"2", "4", ",", "sup2">>}
AddScripts ==
  {a \o b \o c \o <<v>> :
     a \in IdLines, b \in NomeLines, c \in CognomeLines, v \in VotiLines}
    \cup {<<S1, Ana, Li, <<"2", "4", ",">> \o LongDigits>>}

\* the lines typed to aggiungi_voto: the id, then the grade
VotoLines ==
  {<<"2", "5">>, <<" ", "+", "2", "5">>, <<"3", "1">>, <<"1", "7">>, <<"x">>,
   <<>>, <<"-", "2", "5">>, <<"2", "5", ".", "0">>, <<"sup2">>}
GradeScripts == {<<m, v>> : m \in {S1, <<" ">> \o S2, S3}, v \in VotoLines}

\* the lines typed to cancella_studente: the id, then the confirmation
ConfermaLines == {<<"s">>, <<" ", "S">>, <<"N">>, <<>>, <<"S", "I">>}
DeleteScripts == {<<m, c>> : m \in {S1, <<" ">> \o S2, S3}, c \in ConfermaLines}

----------------------------------------------------------------------------
(* Stores the program may find when it starts *)

Missing    == [kind |-> "missing", doc |-> NoDoc]
BadJson    == [kind |-> "badjson", doc |-> NoDoc]
BadUtf8    == [kind |-> "badutf8", doc |-> NoDoc]
Unreadable == [kind |-> "unreadable", doc |-> NoDoc]

JStr  == [t |-> "str", n |-> 0, d |-> 1]
JNull == [t |-> "null", n |-> 0, d |-> 1]
JList == [t |-> "list", n |-> 0, d |-> 1]
JBool(b) == [t |-> "bool", n |-> IF b THEN 1 ELSE 0, d |-> 1]
JFloat(n, d) == [t |-> "float", n |-> n, d |-> d]

\* hand-edited rosters
HandRosters ==
  {<<>>,
   << [matricola |-> S1, nome |-> Ana, cognome |-> Li,
       voti |-> <<JInt(20), JInt(22)>>] >>,
   << [matricola |-> S1, cognome |-> Li, voti |-> <<JInt(20)>>] >>,
   << [matricola |-> S2, nome |-> Ana, voti |-> <<JInt(20)>>] >>,
   << [nome |-> Ana, cognome |-> Li, voti |-> <<JInt(20)>>] >>,
   << [matricola |-> S2, nome |-> Ana, cognome |-> Li] >>,
   << [matricola |-> S1, nome |-> Ana, cognome |-> Li,
       voti |-> <<JStr, JBool(TRUE), JFloat(41, 2)>>] >>,
   << [matricola |-> S1, nome |-> Ana, cognome |-> Li, voti |-> <<JInt(30)>>],
      [matricola |-> S2, nome |-> Ana, cognome |-> Li, voti |-> <<JInt(18)>>],
      [matricola |-> S1, nome |-> Ana, cognome |-> Li,
       voti |-> <<JInt(24), JInt(26)>>] >>}

\* JSON documents that are not arrays
OtherDocs ==
  {[t |-> k, items |-> <<>>] :
     k \in {"object", "empty_object", "number", "zero", "string", "empty_string",
            "true", "false", "null"}}

InitStores ==
  {Missing, BadJson, Unreadable}
    \cup {json_dump(r) : r \in HandRosters}
    \cup {[kind |-> "json", doc |-> d] : d \in OtherDocs}

\* the students the operations will find in the file f
Roster(f) == leggi_studenti_da_file(f).val.items

----------------------------------------------------------------------------
(* The menu loop *)

Init ==
  /\ file \in InitStores
  /\ pc = "menu"
  /\ last = Blank
  /\ shown = <<>>
  /\ arg = <<>>
  /\ res = <<>>

\* one pass of the menu loop that runs the handler result r
Run(r) ==
  /\ file' = r.file
  /\ last' = r.last
  /\ shown' = r.shown
  /\ pc' = IF r.last.exc # "none" THEN "crashed" ELSE "menu"
  /\ UNCHANGED <<arg, res>>

List ==
  /\ pc = "menu"
  /\ \E scelta \in Choices :
       /\ strip(scelta) = <<"1">>
       /\ Run(esegui_processo(file))

AddStudent ==
  /\ pc = "menu"
  /\ Len(Roster(file)) < MaxRoster
  /\ \E scelta \in Choices, script \in AddScripts :
       /\ strip(scelta) = <<"2">>
       /\ Run(aggiungi_studente(file, script))

AddGrade ==
  /\ pc = "menu"
  /\ \E scelta \in Choices, script \in GradeScripts :
       /\ strip(scelta) = <<"3">>
       /\ LET i == studente_trovato(Roster(file), strip(script[1]))
          IN IF i = 0 THEN TRUE
             ELSE Len(Get(Roster(file)[i], "voti", <<>>)) < MaxGrades
       /\ Run(aggiungi_voto(file, script))

Delete ==
  /\ pc = "menu"
  /\ \E scelta \in Choices, script \in DeleteScripts :
       /\ strip(scelta) = <<"4">>
       /\ Run(cancella_studente(file, script))

Exit ==
  /\ pc = "menu"
  /\ \E scelta \in Choices :
       /\ strip(scelta) = <<"0">>
       /\ pc' = "exited"
       /\ last' = [Blank EXCEPT !.op = "exit", !.store = file.kind]
       /\ shown' = <<>>
       /\ UNCHANGED <<file, arg, res>>

InvalidChoice ==
  /\ pc = "menu"
  /\ \E scelta \in Choices :
       /\ strip(scelta) \notin {<<"0">>, <<"1">>, <<"2">>, <<"3">>, <<"4">>}
       /\ last' = [Blank EXCEPT !.op = "invalid", !.store = file.kind]
       /\ shown' = <<>>
       /\ UNCHANGED <<file, pc, arg, res>>

Next == List \/ AddStudent \/ AddGrade \/ Delete \/ Exit \/ InvalidChoice

Spec == Init /\ [][Next]_vars

\* the program started on an absent, empty or "[]" store
InitFresh ==
  /\ file \in {Missing, BadJson, json_dump(<<>>)}
  /\ pc = "menu"
  /\ last = Blank
  /\ shown = <<>>
  /\ arg = <<>>
  /\ res = <<>>

SpecFresh == InitFresh /\ [][Next]_vars

----------------------------------------------------------------------------
(* The functions on their own: each specification draws an input and       *)
(* applies one function to it.                                             *)

\* records a hand-edited file may hold
HandRecords ==
  {[matricola |-> S1, nome |-> Ana, cognome |-> Li, voti |-> <<JInt(20), JInt(22)>>],
   [matricola |-> S2, nome |-> Ana, cognome |-> Li, voti |-> <<>>],
   [matricola |-> S1, cognome |-> Li, voti |-> <<JInt(20)>>],
   [matricola |-> S2, nome |-> Ana, voti |-> <<JInt(20)>>],
   [nome |-> Ana, cognome |-> Li, voti |-> <<JInt(20)>>],
   [matricola |-> S2, nome |-> Ana, cognome |-> Li],
   [matricola |-> S1, nome |-> Ana, cognome |-> Li, voti |-> <<JStr, JBool(TRUE)>>]}

SeqsUpTo(S, n) == UNION {[1..k -> S] : k \in 0..n}

AllStores ==
  {Missing, BadJson, BadUtf8, Unreadable}
    \cup {[kind |-> "json", doc |-> d] : d \in OtherDocs}
    \cup {json_dump(r) : r \in SeqsUpTo(HandRecords, MaxRoster)}

InitLoad ==
  /\ file \in AllStores
  /\ pc = "start"
  /\ last = Blank
  /\ shown = <<>>
  /\ arg = <<>>
  /\ res = <<>>

LoadStep ==
  /\ pc = "start"
  /\ res' = leggi_studenti_da_file(file)
  /\ pc' = "done"
  /\ UNCHANGED <<file, last, shown, arg>>

NextLoad == LoadStep

SpecLoad == InitLoad /\ [][NextLoad]_vars

\* values a "voti" list of a hand-edited file may hold
JsonValues ==
  {JInt(18), JInt(30), JFloat(41, 2), JStr, JBool(TRUE), JBool(FALSE), JNull, JList}

InitAvg ==
  /\ arg \in SeqsUpTo(JsonValues, MaxAvgLen)
  /\ pc = "start"
  /\ file = Missing
  /\ last = Blank
  /\ shown = <<>>
  /\ res = <<>>

AvgStep ==
  /\ pc = "start"
  /\ res' = calcola_media(arg)
  /\ pc' = "done"
  /\ UNCHANGED <<file, last, shown, arg>>

NextAvg == AvgStep

SpecAvg == InitAvg /\ [][NextAvg]_vars

\* pieces of a grade line
Pieces ==
  {<<>>, <<"2", "4">>, <<" ", "2", "6", " ">>, <<"b", "a", "d">>, <<"1", "7">>,
   <<"3", "1">>, <<"1", "8">>, <<"3", "0">>, <<"0", "2", "4">>, <<"+", "2", "4">>,
   <<"2", " ", "4">>, <<"sup2">>, <<"2", "sup2">>}

RECURSIVE Join(_)
Join(ps) ==
  IF Len(ps) = 1 THEN ps[1]
  ELSE ps[1] \o <<",">> \o Join(Tail(ps))

InitParse ==
  /\ \/ \E ps \in SeqsUpTo(Pieces, MaxPieces) : Len(ps) > 0 /\ arg = Join(ps)
     \/ arg \in {LongDigits, <<"2", "4", ",">> \o LongDigits,
                  Tail(LongDigits) \o <<",", "3", "0">>}
  /\ pc = "start"
  /\ file = Missing
  /\ last = Blank
  /\ shown = <<>>
  /\ res = <<>>

ParseStep ==
  /\ pc = "start"
  /\ res' = ParseVoti(arg)
  /\ pc' = "done"
  /\ UNCHANGED <<file, last, shown, arg>>

NextParse == ParseStep

SpecParse == InitParse /\ [][NextParse]_vars

----------------------------------------------------------------------------
(* Properties *)

\* the store is one that load gives a Roster for: a JSON array, or a file
\* that is missing or not valid JSON (the empty Roster)
LoadsRoster(f) ==
  f.kind \in {"missing", "badjson"} \/ (f.kind = "json" /\ f.doc.t = "array")

\* what the properties mean by a grade: a decimal integer from 18 to 30
IsGrade(raw) == int(raw).ok /\ int(raw).v \in 18..30

HasRecordWith(studenti, id) ==
  \E i \in 1..Len(studenti) : Matches(studenti[i], id)

\* the position of the first record with the id
FirstWith(studenti, id) ==
  CHOOSE i \in 1..Len(studenti) :
    /\ Matches(studenti[i], id)
    /\ \A j \in 1..(i - 1) : ~Matches(studenti[j], id)

\* studenti with the first record with the id taken out
WithoutFirst(studenti, id) ==
  LET k == FirstWith(studenti, id)
  IN [j \in 1..(Len(studenti) - 1) |-> IF j < k THEN studenti[j] ELSE studenti[j + 1]]

\* studenti with grade g added at the end of the first record with the id
WithGrade(studenti, id, g) ==
  LET k == FirstWith(studenti, id)
      old == IF "voti" \in DOMAIN studenti[k] THEN studenti[k].voti ELSE <<>>
      rec == [key \in DOMAIN studenti[k] \cup {"voti"} |->
                IF key = "voti" THEN old \o <<JInt(g)>> ELSE studenti[k][key]]
  IN [j \in 1..Len(studenti) |-> IF j = k THEN rec ELSE studenti[j]]

\* C1: for every store file that is missing or malformed (absent, unreadable,
\* not valid JSON, or valid JSON that is not an array), load returns an empty
\* Roster and raises nothing.
C1_LoadFailOpen ==
  (pc = "done" /\ (file.kind # "json" \/ file.doc.t # "array"))
    => res = [exc |-> "none", val |-> EmptyList]

\* C2: when add_student ends with NoValidGrades, or add_grade is given an id
\* that no record has or a grade that is not an integer in [18,30], the store
\* file is not written: it is exactly what it was before, and the operation
\* ends with the matching diagnostic.
C2_AbortLeavesStore ==
  [][LET l == last'
     IN /\ (l.op = "add_student" /\ l.outcome = "NoValidGrades") => file' = file
        /\ (l.op = "add_grade" /\ LoadsRoster(file))
             => /\ ~HasRecordWith(Roster(file), l.id)
                     => (file' = file /\ l.outcome = "StudentNotFound")
                /\ (HasRecordWith(Roster(file), l.id) /\ ~IsGrade(l.raw))
                     => (file' = file /\ l.outcome = "InvalidGrade")]_vars

\* C2 witness: add_grade found the student, refused the grade 31 and returned
C2_Witness ==
  /\ last.op = "add_grade" /\ last.outcome = "InvalidGrade"
  /\ last.raw = <<"3", "1">> /\ HasRecordWith(Roster(file), last.id)

\* C3 as stated: delete_student invoked with an id that a record of the
\* Roster has removes the first such record unconditionally and persists.
C3_DeleteUnconditional ==
  [][LET l == last'
     IN (l.op = "delete" /\ HasRecordWith(Roster(file), l.id))
          => file' = json_dump(WithoutFirst(Roster(file), l.id))]_vars

\* C3 amended: delete_student invoked with an id that a record of the Roster
\* has asks for confirmation; when the answer, trimmed and lower-cased, is
\* "s" it removes exactly the first such record, keeps every other record in
\* order (later records with the same id included) and persists; with any
\* other answer it writes nothing and the record stays.
C3_DeleteConfirmed ==
  [][LET l == last'
     IN (l.op = "delete" /\ HasRecordWith(Roster(file), l.id))
          => IF lower(strip(l.confirm)) = <<"s">>
             THEN /\ file' = json_dump(WithoutFirst(Roster(file), l.id))
                  /\ l.outcome = "ok"
             ELSE /\ file' = file
                  /\ l.outcome = "Cancelled"]_vars

\* C3 witness: a confirmed delete went through and a later record with the
\* same id is still in the store
C3_Witness ==
  /\ last.op = "delete" /\ last.outcome = "ok"
  /\ HasRecordWith(Roster(file), last.id)

\* C4: add_grade with an id that a record has and a raw grade that parses to
\* an integer g in [18,30] appends g at the end of the grades of the first
\* such record only (creating the list when the record has none), leaves all
\* other records and the order unchanged, and persists the whole Roster.
C4_AddGradeAppends ==
  [][LET l == last'
     IN (l.op = "add_grade" /\ HasRecordWith(Roster(file), l.id) /\ IsGrade(l.raw))
          => file' = json_dump(WithGrade(Roster(file), l.id, int(l.raw).v))]_vars

\* C4 witness: grades [20,22] plus "25" have become [20,22,25]
C4_Witness ==
  /\ last.op = "add_grade" /\ last.outcome = "ok"
  /\ \E i \in 1..Len(Roster(file)) :
       /\ Matches(Roster(file)[i], last.id)
       /\ Roster(file)[i].voti = <<JInt(20), JInt(22), JInt(25)>>

\* C5: from an empty or absent store, after any sequence of operations,
\* every persisted record has a non-empty (after trimming) id, first name and
\* last name, and every grade is an integer in [18,30].
C5_PersistedValid ==
  file.kind = "json" =>
    \A i \in 1..Len(file.doc.items) :
      LET r == file.doc.items[i]
      IN /\ DOMAIN r = {"matricola", "nome", "cognome", "voti"}
         /\ strip(r.matricola) # <<>>
         /\ strip(r.nome) # <<>>
         /\ strip(r.cognome) # <<>>
         /\ \A j \in 1..Len(r.voti) : r.voti[j].t = "int" /\ r.voti[j].n \in 18..30

\* C5 witness: two students are persisted, the last operation added a grade
C5_Witness ==
  /\ last.op = "add_grade" /\ last.outcome = "ok"
  /\ file.kind = "json" /\ Len(file.doc.items) = 2

\* C6: when the store holds records that lack matricola, nome or cognome,
\* list, add_grade and delete_student run to completion and return to the menu.
C6_NoCrashOnMissingFields ==
  [][(/\ file.kind = "json"
      /\ \E i \in 1..Len(file.doc.items) :
           ~({"matricola", "nome", "cognome"} \subseteq DOMAIN file.doc.items[i])
      /\ last'.op \in {"list", "add_grade", "delete"})
       => (pc' = "menu" /\ last'.exc = "none")]_vars

\* C7: a successful add_student makes the persisted Roster the previous one
\* with the record {id, first name, last name, grades} appended last, also
\* when the id is already there; and every operation leaves the records that
\* survive it in their order.
C7_AddStudentAppends ==
  [][LET l == last'
         a == Roster(file)
         b == Roster(file')
     IN /\ (l.op = "add_student" /\ l.outcome = "ok")
             => /\ file' = json_dump(a \o <<[matricola |-> l.id, nome |-> l.nome,
                                             cognome |-> l.cognome, voti |-> l.voti]>>)
                /\ l.id # <<>> /\ l.nome # <<>> /\ l.cognome # <<>> /\ l.voti # <<>>
        /\ \/ b = a
           \/ Len(b) = Len(a) + 1 /\ SubSeq(b, 1, Len(a)) = a
           \/ \E k \in 1..Len(a) : b = SubSeq(a, 1, k - 1) \o SubSeq(a, k + 1, Len(a))
           \/ /\ Len(b) = Len(a)
              /\ \E k \in 1..Len(a) : \A j \in 1..Len(a) : j # k => b[j] = a[j]]_vars

\* C7 witness: a student was added after an existing record with the same id
C7_Witness ==
  /\ last.op = "add_student" /\ last.outcome = "ok"
  /\ Len(Roster(file)) >= 2
  /\ Matches(Roster(file)[1], last.id)
  /\ Roster(file)[Len(Roster(file))].voti = last.voti

\* C8: the average is the arithmetic mean of the numeric-typed elements
\* (integers and decimals) only, and 0.0 when there is none, e.g. when the
\* list holds only strings, booleans or null.
C8_AverageNumericOnly ==
  pc = "done" =>
    LET nums == SelectSeq(arg, LAMBDA v : v.t \in {"int", "float"})
        s == sum(nums)
    IN IF nums = <<>> THEN res.n = 0
       ELSE res.n * (s.d * Len(nums)) = s.n * res.d

\* the grade list the specification of the parsing describes, piece by piece
Conforming(piece) ==
  LET t == strip(piece)
  IN /\ Len(t) > 0
     /\ \A i \in 1..Len(t) : t[i] \in DecimalChars
     /\ DecVal(t) \in 18..30

PerPiece(raw) ==
  LET good == SelectSeq(split(raw), Conforming)
  IN [i \in 1..Len(good) |-> JInt(DecVal(strip(good[i])))]

\* C9: the grade list of add_student is, in input order, the values of the
\* comma-separated pieces that after trimming are all decimal digits with a
\* value in [18,30]; a non-conforming piece never discards the others.
C9_PerPieceFilter == pc = "done" => res = PerPiece(arg)

\* C10: on a store that is missing or not valid JSON, add_student given a
\* valid grade succeeds and leaves a Roster of exactly the new record, while
\* add_grade and delete_student return without writing.
C10_FailOpenOverwrite ==
  [][LET l == last'
     IN file.kind \in {"missing", "badjson"}
          => /\ (l.op = "add_student" /\ l.voti # <<>>)
                  => /\ l.outcome = "ok"
                     /\ file' = json_dump(<<[matricola |-> l.id, nome |-> l.nome,
                                            cognome |-> l.cognome, voti |-> l.voti]>>)
             /\ l.op = "add_grade"
                  => (file' = file /\ l.outcome = "StudentNotFound")
             /\ l.op = "delete"
                  => (file' = file /\ l.outcome = "EmptyRoster")]_vars

\* C10 witness: add_student succeeded on a store that was not valid JSON and
\* the file now holds one record
C10_Witness ==
  /\ last.op = "add_student" /\ last.outcome = "ok" /\ last.store = "badjson"
  /\ file.kind = "json" /\ Len(file.doc.items) = 1

====
